---- MODULE Spec2Model ----
(***************************************************************************)
(* Aegis feedback engine: the ingest endpoint (app/routers/feedback.py),   *)
(* the race orchestrator and classifiers (app/logic.py), the               *)
(* reconciliation and CSV workers (app/workers.py) and the store they      *)
(* share (app/models.py, app/database.py).                                 *)
(*                                                                         *)
(* Texts are sequences of one-character strings.  Scores that the code     *)
(* keeps as floats are kept in hundredths (0.05 is 5, 0.95 is 95).         *)
(***************************************************************************)
EXTENDS Integers, Sequences, FiniteSets, TLC

\* Python's None.
None == "None"

(***************************************************************************)
(* Bounds of the model.                                                    *)
(***************************************************************************)
\* Number of POST /feedback requests in a run.
NumRequests == 2
\* Number of reconciliation worker invocations in a run.
NumWorkers == 2
\* sanitize_text truncates to 512 characters; the model's texts are a few
\* characters long, so the truncation length is scaled down with them.
TruncLen == 5

(***************************************************************************)
(* app/models.py                                                           *)
(***************************************************************************)
Sentiments == {"POSITIVE", "NEGATIVE", "NEUTRAL"}

AI == "ai"
FALLBACK == "fallback"

GROQ == "groq-llama3"
OPENAI == "openai-gpt4o-mini"
VADER == "vader-regex"
MOCK == "mock-llm"
UNKNOWN == "unknown"

UNASSIGNED == "Unassigned"

OPEN == "Open"
RESOLVED == "Resolved"

\* Mutant: UX feedback is routed to engineering.
TOPIC_TO_DEPT_MAP_UXToEngineering ==
    [t \in {"Billing", "Technical", "UX", "Security", "General"} |->
        CASE t = "Billing" -> "Customer Success - Finance"
          [] t = "Technical" -> "Engineering - Core"
          [] t = "UX" -> "Engineering - Core"
          [] t = "Security" -> "InfoSec - Priority"
          [] t = "General" -> "Customer Support - Triage"]

TOPIC_TO_DEPT_MAP ==
    [t \in {"Billing", "Technical", "UX", "Security", "General"} |->
        CASE t = "Billing" -> "Customer Success - Finance"
          [] t = "Technical" -> "Engineering - Core"
          [] t = "UX" -> "Product - Design"
          [] t = "Security" -> "InfoSec - Priority"
          [] t = "General" -> "Customer Support - Triage"]

\* FeedbackInput.raw_content: Field(min_length=3, ...).
MIN_LENGTH == 3

\* Feedback.generate_hash: SHA-256 of the text.  The digest is collision
\* free on the model's texts, so the text stands for its own digest.
generate_hash(text) == <<"sha256", text>>

(***************************************************************************)
(* app/logic.py: sanitize_text                                             *)
(***************************************************************************)
RECURSIVE IndexOf(_, _, _)
\* The least index i >= from with s[i] = c, or 0.
IndexOf(s, c, from) ==
    IF from > Len(s) THEN 0
    ELSE IF s[from] = c THEN from
    ELSE IndexOf(s, c, from + 1)

RECURSIVE StripTags(_)
\* re.sub(r"<[^>]*>", "", text): leftmost non-overlapping matches; a "<"
\* with a later ">" is deleted together with everything up to that ">".
StripTags(text) ==
    IF text = <<>> THEN <<>>
    ELSE IF Head(text) = "<" /\ IndexOf(text, ">", 2) # 0
         THEN StripTags(SubSeq(text, IndexOf(text, ">", 2) + 1, Len(text)))
         ELSE <<Head(text)>> \o StripTags(Tail(text))

Truncate(text, n) == IF Len(text) <= n THEN text ELSE SubSeq(text, 1, n)

\* Mutant: only the first tag is removed (re.sub with count=1).
sanitize_text_FirstTagOnly(text) ==
    LET opens == {i \in 1..Len(text) :
                     text[i] = "<" /\ IndexOf(text, ">", i + 1) # 0}
    IN IF opens = {} THEN Truncate(text, TruncLen)
       ELSE LET first == CHOOSE i \in opens : \A j \in opens : i <= j
            IN Truncate(SubSeq(text, 1, first - 1)
                        \o SubSeq(text, IndexOf(text, ">", first + 1) + 1, Len(text)),
                        TruncLen)

sanitize_text(text) == Truncate(StripTags(text), TruncLen)

(***************************************************************************)
(* app/logic.py: map_topics_to_department                                  *)
(***************************************************************************)
\* A topic element that is a JSON array or object: Python cannot hash it,
\* so "topic in TOPIC_TO_DEPT_MAP" raises TypeError.
UnhashableTopic == "{}"
TypeError == "TypeError"

RECURSIVE map_topics_to_department(_)
map_topics_to_department(topics) ==
    IF topics = <<>> THEN UNASSIGNED
    ELSE IF Head(topics) = UnhashableTopic THEN TypeError
    ELSE IF Head(topics) \in DOMAIN TOPIC_TO_DEPT_MAP
         THEN TOPIC_TO_DEPT_MAP[Head(topics)]
         ELSE map_topics_to_department(Tail(topics))

(***************************************************************************)
(* app/logic.py: analyze_heuristic                                         *)
(***************************************************************************)
\* str.lower on the characters the model's texts use.
LowerChar(c) ==
    CASE c = "S" -> "s"
      [] c = "B" -> "b"
      [] OTHER -> c

Lower(text) == [i \in 1..Len(text) |-> LowerChar(text[i])]

\* Python's "w in text" on strings.
IsSubstring(w, text) ==
    \E i \in 1..(Len(text) - Len(w) + 1) : SubSeq(text, i, i + Len(w) - 1) = w

RECURSIVE SplitWords(_, _)
\* The words of a text, split at blanks; cur is the word being read.
SplitWords(text, cur) ==
    IF text = <<>> THEN (IF cur = <<>> THEN <<>> ELSE <<cur>>)
    ELSE IF Head(text) = " "
         THEN (IF cur = <<>> THEN <<>> ELSE <<cur>>) \o SplitWords(Tail(text), <<>>)
         ELSE SplitWords(Tail(text), cur \o <<Head(text)>>)

\* The valence (in tenths) the VADER lexicon gives a word; the lexicon is
\* cut down to the words of the model's texts.
Valence(word) ==
    CASE word = <<"g", "o", "o", "d">> -> 19
      [] word = <<"b", "a", "d">> -> -25
      [] word = <<"w", "o", "r", "s", "t">> -> -31
      [] OTHER -> 0

RECURSIVE SumValence(_)
SumValence(words) ==
    IF words = <<>> THEN 0 ELSE Valence(Head(words)) + SumValence(Tail(words))


\* VADER's normalisation score / sqrt(score^2 + 15), in hundredths and
\* rounded towards zero.
Normalize(s) ==
    LET m == CHOOSE c \in 0..100 :
                 /\ c * c * (s * s + 1500) <= 10000 * s * s
                 /\ (c + 1) * (c + 1) * (s * s + 1500) > 10000 * s * s
    IN IF s < 0 THEN -m ELSE m

\* vader_analyzer.polarity_scores(text)["compound"], in hundredths.
Compound(text) == Normalize(SumValence(SplitWords(Lower(text), <<>>)))

Keywords ==
    [t \in {"Billing", "Technical", "UX", "Security"} |->
        CASE t = "Billing" ->
               {<<"c", "h", "a", "r", "g", "e">>,
                <<"c", "r", "e", "d", "i", "t">>,
                <<"c", "a", "r", "d">>,
                <<"r", "e", "f", "u", "n", "d">>,
                <<"b", "i", "l", "l">>,
                <<"i", "n", "v", "o", "i", "c", "e">>,
                <<"c", "o", "s", "t">>}
          [] t = "Technical" ->
               {<<"b", "u", "g">>,
                <<"c", "r", "a", "s", "h">>,
                <<"e", "r", "r", "o", "r">>,
                <<"f", "a", "i", "l">>,
                <<"s", "l", "o", "w">>,
                <<"l", "o", "g", "i", "n">>,
                <<"a", "p", "p">>,
                <<"5", "0", "0">>,
                <<"4", "0", "4">>}
          [] t = "UX" ->
               {<<"u", "g", "l", "y">>,
                <<"c", "o", "n", "f", "u", "s", "i", "n", "g">>,
                <<"h", "a", "r", "d">>,
                <<"c", "o", "l", "o", "r">>,
                <<"b", "u", "t", "t", "o", "n">>,
                <<"n", "a", "v">>,
                <<"i", "n", "t", "e", "r", "f", "a", "c", "e">>}
          [] t = "Security" ->
               {<<"p", "a", "s", "s", "w", "o", "r", "d">>,
                <<"h", "a", "c", "k", "e", "d">>,
                <<"b", "r", "e", "a", "c", "h">>,
                <<"s", "u", "s", "p", "i", "c", "i", "o", "u", "s">>,
                <<"a", "u", "t", "h">>,
                <<"p", "h", "i", "s", "h", "i", "n", "g">>}]

\* Insertion order of the keywords dict.
KeywordOrder == <<"Billing", "Technical", "UX", "Security">>

DangerKeywords ==
    {<<"l", "a", "w", "s", "u", "i", "t">>,
     <<"s", "u", "e">>,
     <<"i", "l", "l", "e", "g", "a", "l">>,
     <<"g", "d", "p", "r">>,
     <<"e", "m", "e", "r", "g", "e", "n", "c", "y">>,
     <<"f", "r", "a", "u", "d">>,
     <<"p", "o", "l", "i", "c", "e">>}

RECURSIVE MatchedTopics(_, _)
MatchedTopics(text_lower, order) ==
    IF order = <<>> THEN <<>>
    ELSE (IF \E w \in Keywords[Head(order)] : IsSubstring(w, text_lower)
          THEN <<Head(order)>> ELSE <<>>)
         \o MatchedTopics(text_lower, Tail(order))

HeuristicSentiment(compound) ==
    IF compound >= 5 THEN "POSITIVE"
    ELSE IF compound <= -5 THEN "NEGATIVE"
    ELSE "NEUTRAL"

analyze_heuristic(text) ==
    LET compound == Compound(text)
        sentiment == HeuristicSentiment(compound)
        text_lower == Lower(text)
        matched == MatchedTopics(text_lower, KeywordOrder)
        topics == IF matched = <<>> THEN <<"General">> ELSE matched
        danger == \E w \in DangerKeywords : IsSubstring(w, text_lower)
        is_urgent == danger \/ (sentiment = "NEGATIVE" /\ compound < -60)
    IN [sentiment |-> sentiment,
        topics |-> topics,
        is_urgent |-> is_urgent,
        confidence_score |-> 50,
        ai_provider |-> VADER]

(***************************************************************************)
(* app/logic.py: validate_llm_response                                     *)
(*                                                                         *)
(* A JSON value of the LLM's reply is [type, val]: type is "absent" (the   *)
(* key is missing), "bool", "str" or "list", and val is a sequence of      *)
(* strings: <<"true">> or <<"false">> for a bool, the one string of a str, *)
(* the elements of a list.                                                 *)
(***************************************************************************)
JAbsent == [type |-> "absent", val |-> <<>>]
JBool(b) == [type |-> "bool", val |-> IF b THEN <<"true">> ELSE <<"false">>]
JStr(s) == [type |-> "str", val |-> <<s>>]
JList(l) == [type |-> "list", val |-> l]

\* str.upper on the sentiment strings the model's replies use.
Upper(s) ==
    CASE s = "positive" -> "POSITIVE"
      [] s = "Negative" -> "NEGATIVE"
      [] s = "super_happy" -> "SUPER_HAPPY"
      [] OTHER -> s

\* str(data.get("sentiment", "")).upper()
SentimentString(v) ==
    CASE v.type = "absent" -> ""
      [] v.type = "str" -> Upper(v.val[1])
      [] v.type = "bool" -> IF v.val = <<"true">> THEN "TRUE" ELSE "FALSE"
      [] OTHER -> "[...]"

\* bool(data.get("is_urgent", False)): Python's truth value.
Truthy(v) ==
    CASE v.type = "absent" -> FALSE
      [] v.type = "bool" -> v.val = <<"true">>
      [] v.type = "str" -> v.val[1] # ""
      [] OTHER -> v.val # <<>>

\* Mutant: the sentiment is compared without upper-casing it.
validate_llm_response_NoUpper(data) ==
    LET sentiment == IF data.sentiment.type = "str" THEN data.sentiment.val[1]
                     ELSE SentimentString(data.sentiment)
    IN [sentiment |-> IF sentiment \in Sentiments THEN sentiment ELSE "NEUTRAL",
        topics |-> IF data.topics.type = "list" /\ data.topics.val # <<>>
                   THEN data.topics.val
                   ELSE <<"General">>,
        is_urgent |-> Truthy(data.is_urgent)]

validate_llm_response(data) ==
    LET sentiment == SentimentString(data.sentiment)
    IN [sentiment |-> IF sentiment \in Sentiments THEN sentiment ELSE "NEUTRAL",
        topics |-> IF data.topics.type = "list" /\ data.topics.val # <<>>
                   THEN data.topics.val
                   ELSE <<"General">>,
        is_urgent |-> Truthy(data.is_urgent)]

(***************************************************************************)
(* app/logic.py: call_llm                                                  *)
(***************************************************************************)
\* The JSON objects the upstream model may reply with.
LLMReplies ==
    {[sentiment |-> JStr("Negative"), topics |-> JList(<<"Roadmap", "Billing">>),
      is_urgent |-> JBool(TRUE)],
     [sentiment |-> JStr("super_happy"), topics |-> JStr("NotAList"),
      is_urgent |-> JAbsent],
     [sentiment |-> JStr("POSITIVE"), topics |-> JList(<<UnhashableTopic, "UX">>),
      is_urgent |-> JBool(FALSE)]}

\* settings: which client call_llm uses (ENABLE_MOCK_MODE or no key: MOCK).
Providers == {GROQ, OPENAI, MOCK}

\* What one call of call_llm(text) can come to: "ok" with the returned
\* dict, "error" (RateLimitError, transport error, json.loads failure: the
\* except clauses re-raise), or "hang" (no reply yet when the caller stops
\* waiting).
NoResult == [sentiment |-> "", topics |-> <<>>, is_urgent |-> FALSE,
             confidence_score |-> 0, ai_provider |-> UNKNOWN]

\* "Parse & Validate": the dict call_llm returns for the JSON object d.
ParsedReply(d, prov) ==
    [sentiment |-> validate_llm_response(d).sentiment,
     topics |-> validate_llm_response(d).topics,
     is_urgent |-> validate_llm_response(d).is_urgent,
     confidence_score |-> 99,
     ai_provider |-> prov]

\* Mutant: call_llm swallows its exceptions and returns an empty result.
call_llm_SwallowsErrors(text, prov) ==
    IF prov = MOCK
    THEN {[kind |-> "ok",
           result |-> [analyze_heuristic(text) EXCEPT
                          !.ai_provider = MOCK, !.confidence_score = 95]],
          [kind |-> "ok", result |-> NoResult]}
    ELSE {[kind |-> "ok", result |-> ParsedReply(d, prov)] : d \in LLMReplies}
         \cup {[kind |-> "ok", result |-> NoResult],
               [kind |-> "hang", result |-> NoResult]}

call_llm(text, prov) ==
    IF prov = MOCK
    THEN {[kind |-> "ok",
           result |-> [analyze_heuristic(text) EXCEPT
                          !.ai_provider = MOCK, !.confidence_score = 95]],
          [kind |-> "hang", result |-> NoResult]}
    ELSE {[kind |-> "ok", result |-> ParsedReply(d, prov)] : d \in LLMReplies}
         \cup {[kind |-> "error", result |-> NoResult],
               [kind |-> "hang", result |-> NoResult]}

(***************************************************************************)
(* app/logic.py: analyze_feedback_hybrid                                   *)
(***************************************************************************)
\* Mutant: on a timeout the race returns column defaults, not the
\* heuristic's result.
RaceResult_TimeoutDefaults(clean_text, outcome) ==
    LET heuristic_result == analyze_heuristic(clean_text)
        chosen == IF outcome.kind = "ok" THEN outcome.result
                  ELSE IF outcome.kind = "hang" THEN NoResult
                  ELSE heuristic_result
    IN [sentiment |-> IF outcome.kind = "hang" THEN "NEUTRAL" ELSE chosen.sentiment,
        topics |-> IF outcome.kind = "hang" THEN <<"General">> ELSE chosen.topics,
        is_urgent |-> chosen.is_urgent,
        confidence_score |-> chosen.confidence_score,
        ai_provider |-> chosen.ai_provider,
        source |-> IF outcome.kind = "ok" THEN AI ELSE FALLBACK]

\* The dict built by the try block: the LLM's result with source "ai" when
\* wait_for returns it, the heuristic's with source "fallback" on
\* asyncio.TimeoutError ("hang") and on any other Exception ("error").
RaceResult(clean_text, outcome) ==
    LET heuristic_result == analyze_heuristic(clean_text)
        chosen == IF outcome.kind = "ok" THEN outcome.result ELSE heuristic_result
    IN [sentiment |-> chosen.sentiment,
        topics |-> chosen.topics,
        is_urgent |-> chosen.is_urgent,
        confidence_score |-> chosen.confidence_score,
        ai_provider |-> chosen.ai_provider,
        source |-> IF outcome.kind = "ok" THEN AI ELSE FALLBACK]

\* "3. Final Polish": the department of the chosen topics; TypeError when
\* map_topics_to_department raises.
FinalPolish(final_result) ==
    [sentiment |-> final_result.sentiment,
     topics |-> final_result.topics,
     is_urgent |-> final_result.is_urgent,
     confidence_score |-> final_result.confidence_score,
     ai_provider |-> final_result.ai_provider,
     source |-> final_result.source,
     department |-> map_topics_to_department(final_result.topics)]

analyze_feedback_hybrid(clean_text, outcome) ==
    FinalPolish(RaceResult(clean_text, outcome))

(***************************************************************************)
(* State                                                                   *)
(***************************************************************************)
VARIABLES
    provider,       \* settings: the client call_llm uses
    rows,           \* the feedback table: rows[i] is the i-th row committed
    audit,          \* history: for each row, the LLM output its last
                    \* classification write was given
    req,            \* the POST /feedback requests
    wrk,            \* the reconcile_data_worker invocations (snap_status is
                    \* history: the row's status when the snapshot was read)
    ai_semaphore,   \* free tokens of logic.ai_semaphore
    db_write_lock,  \* holder of database.db_write_lock
    txn,            \* holder of the store's write transaction
    alerts,         \* trigger_alert tasks added to background_tasks
    csv,            \* the process_csv_worker task of an uploaded file
    sched,          \* the run_periodic_reconciliation task
    probe           \* the last call of a pure function: its input and output

vars == <<provider, rows, audit, req, wrk, ai_semaphore, db_write_lock, txn,
          alerts, csv, sched, probe>>

Requests == 1..NumRequests
Workers == 1..NumWorkers

\* Nobody holds the lock or the transaction.
NoHolder == <<>>

\* The raw_content values the clients submit: "<b>sue", "sue", "bad app"
\* and "hi" (shorter than min_length).
Inputs ==
    {<<"<", "b", ">", "s", "u", "e">>,
     <<"s", "u", "e">>,
     <<"b", "a", "d", " ", "a", "p", "p">>,
     <<"h", "i">>}

\* ResolutionRequest.note
Notes == {"fixed"}

\* ai_semaphore = asyncio.Semaphore(50), scaled down so that the calls of
\* the model can fill the gate.
SEMAPHORE_CAPACITY == 1

NoResponse == [status |-> 0, duplicate |-> FALSE, id |-> 0, error |-> ""]
NoOutcome == [kind |-> "none", result |-> NoResult]
NoFinal == [sentiment |-> "", topics |-> <<>>, is_urgent |-> FALSE,
            confidence_score |-> 0, ai_provider |-> UNKNOWN,
            source |-> "", department |-> ""]

\* The texts of the rows of the uploaded files: "sue", "bad app"; and
\* "hi", an empty text, "hi" again.
CsvFiles ==
    {<<(<<"s", "u", "e">>), (<<"b", "a", "d", " ", "a", "p", "p">>)>>,
     <<(<<"h", "i">>), (<<>>), (<<"h", "i">>)>>}

\* "Batch Commit (Every 10)"
BATCH_SIZE == 10

NewRequest ==
    [pc |-> "new", raw |-> <<>>, clean |-> <<>>, outcome |-> NoOutcome,
     result |-> NoFinal, id |-> 0, resp |-> NoResponse]

\* A request that was refused for its length ("hi").
RefusedRequest ==
    [pc |-> "done", raw |-> <<"h", "i">>, clean |-> <<>>, outcome |-> NoOutcome,
     result |-> NoFinal, id |-> 0,
     resp |-> [status |-> 422, duplicate |-> FALSE, id |-> 0,
               error |-> "ValidationError"]]

IdleWorker ==
    [pc |-> "idle", id |-> 0, raw_content |-> <<>>, was_urgent |-> FALSE,
     ai_result |-> NoResult, snap_status |-> ""]

\* A worker that has returned (it was given an id that names no row).
ReturnedWorker ==
    [pc |-> "done", id |-> 0, raw_content |-> <<>>, was_urgent |-> FALSE,
     ai_result |-> NoResult, snap_status |-> ""]

NoCsv == [pc |-> "none", todo |-> <<>>, text |-> <<>>, pending |-> <<>>, count |-> 0]

\* run_periodic_reconciliation has not been started.
NoSched == [pc |-> "off", items |-> <<>>, last |-> "", cancel |-> ""]

\* No pure function has been called.
NoProbe == [op |-> "none", input |-> <<>>, output |-> <<>>]

\* The store is empty and nothing is in flight.  Either no file has been
\* uploaded and every request and worker is still to come, or a file has
\* been uploaded and one request and one worker are still to come (the
\* others are over: a refused request, a worker that found no row).
Init ==
    /\ provider \in Providers
    /\ rows = <<>>
    /\ audit = <<>>
    /\ \/ /\ csv = NoCsv
          /\ req = [r \in Requests |-> NewRequest]
          /\ wrk = [w \in Workers |-> IdleWorker]
       \/ /\ \E file \in CsvFiles : csv = [NoCsv EXCEPT !.pc = "row", !.todo = file]
          /\ req = [r \in Requests |-> IF r = 1 THEN NewRequest ELSE RefusedRequest]
          /\ wrk = [w \in Workers |-> IF w = 1 THEN IdleWorker ELSE ReturnedWorker]
    /\ ai_semaphore = SEMAPHORE_CAPACITY
    /\ db_write_lock = NoHolder
    /\ txn = NoHolder
    /\ alerts = <<>>
    /\ sched = NoSched
    /\ probe = NoProbe

(***************************************************************************)
(* The store                                                               *)
(***************************************************************************)
\* Mutant: the select by hash never finds a row.
FindByHash_NeverFound(table, h) == 0

\* select(Feedback).where(Feedback.content_hash == h).first(): the id of
\* the row, 0 when there is none.
FindByHash(table, h) ==
    IF \E i \in 1..Len(table) : table[i].content_hash = h
    THEN CHOOSE i \in 1..Len(table) :
            /\ table[i].content_hash = h
            /\ \A j \in 1..(i - 1) : table[j].content_hash # h
    ELSE 0

\* Mutant: content_hash has no unique index.
UniqueConflict_NoIndex(table, h) == FALSE

\* The unique index on content_hash refuses the insert (IntegrityError).
UniqueConflict(table, h) == FindByHash(table, h) # 0

\* Feedback(raw_content=..., content_hash=..., **result) with the column
\* defaults of the table.
NewRow(id, raw_content, content_hash, result) ==
    [id |-> id,
     raw_content |-> raw_content,
     content_hash |-> content_hash,
     sentiment |-> result.sentiment,
     topics |-> result.topics,
     is_urgent |-> result.is_urgent,
     confidence_score |-> result.confidence_score,
     status |-> OPEN,
     priority |-> "Medium",
     resolution_note |-> None,
     needs_review |-> FALSE,
     department |-> result.department,
     ai_provider |-> result.ai_provider,
     source |-> result.source]

\* The LLM output a classification write was given, if any.
AuditOf(outcome) ==
    [has_llm |-> outcome.kind = "ok",
     sentiment |-> outcome.result.sentiment,
     topics |-> outcome.result.topics,
     is_urgent |-> outcome.result.is_urgent]

\* Mutant: the lock excludes nobody.
CanAcquire_Always(lock) == TRUE

\* threading.Lock: acquire succeeds only when nobody holds the lock.
CanAcquire(lock) == lock = NoHolder

(***************************************************************************)
(* app/routers/feedback.py: ingest_feedback                                *)
(***************************************************************************)
\* The handler returns: its locals are gone, the response stays.
Respond(r, status, duplicate, id, error) ==
    req' = [req EXCEPT ![r] = [pc |-> "done", raw |-> req[r].raw, clean |-> <<>>,
                               outcome |-> NoOutcome, result |-> NoFinal, id |-> 0,
                               resp |-> [status |-> status, duplicate |-> duplicate,
                                         id |-> id, error |-> error]]]

\* Request validation, sanitize, hash and "1. Dedup Check (Fast Read)".
IngestStart(r) ==
    /\ req[r].pc = "new"
    /\ \E raw \in Inputs :
         LET clean_text == sanitize_text(raw)
             existing == FindByHash(rows, generate_hash(clean_text))
         IN IF Len(raw) < MIN_LENGTH
            THEN req' = [req EXCEPT ![r].pc = "done", ![r].raw = raw,
                                    ![r].resp = [status |-> 422, duplicate |-> FALSE,
                                                 id |-> 0,
                                                 error |-> "ValidationError"]]
            ELSE IF existing # 0
            THEN req' = [req EXCEPT ![r].pc = "done", ![r].raw = raw,
                                    ![r].resp = [status |-> 200, duplicate |-> TRUE,
                                                 id |-> existing, error |-> ""]]
            ELSE req' = [req EXCEPT ![r].pc = "analyze", ![r].raw = raw,
                                    ![r].clean = clean_text]
    /\ UNCHANGED <<sched, probe>>
    /\ UNCHANGED <<provider, rows, audit, wrk, ai_semaphore, db_write_lock, txn,
                   alerts, csv>>

\* Mutant: a cancellation leaves the block without giving the token back.
AsyncWithExit_LeaksOnCancel(sem, how) ==
    IF how = "cancelled" THEN sem ELSE sem + 1

\* "async with ai_semaphore": __aexit__ releases the token however the
\* block is left ("ok", "hang" for the timeout, "error", "cancelled").
AsyncWithExit(sem, how) == sem + 1

\* analyze_feedback_hybrid: "async with ai_semaphore" admits the call.
HybridAcquire(r) ==
    /\ req[r].pc = "analyze"
    /\ ai_semaphore > 0
    /\ ai_semaphore' = ai_semaphore - 1
    /\ req' = [req EXCEPT ![r].pc = "llm"]
    /\ UNCHANGED <<sched, probe>>
    /\ UNCHANGED <<provider, rows, audit, wrk, db_write_lock, txn, alerts, csv>>

\* analyze_feedback_hybrid: the race, the release of the token and the
\* final polish.  A TypeError of the final polish leaves the endpoint as a
\* 500 response.
HybridRace(r) ==
    /\ req[r].pc = "llm"
    /\ \E outcome \in call_llm(req[r].clean, provider) :
         LET final_result == analyze_feedback_hybrid(req[r].clean, outcome)
         IN /\ ai_semaphore' = AsyncWithExit(ai_semaphore, outcome.kind)
            /\ IF final_result.department = TypeError
               THEN req' = [req EXCEPT ![r].pc = "done", ![r].clean = <<>>,
                                       ![r].resp = [status |-> 500, duplicate |-> FALSE,
                                                    id |-> 0, error |-> TypeError]]
               ELSE req' = [req EXCEPT ![r].pc = "write", ![r].outcome = outcome,
                                       ![r].result = final_result]
    /\ UNCHANGED <<sched, probe>>
    /\ UNCHANGED <<provider, rows, audit, wrk, db_write_lock, txn, alerts, csv>>

\* The request's task is cancelled while it waits for a token or for the
\* race: CancelledError is no Exception, so it passes "except Exception"
\* and leaves through __aexit__ when the block had been entered; no
\* response is sent.
HybridCancelled(r) ==
    /\ req[r].pc \in {"analyze", "llm"}
    /\ ai_semaphore' = IF req[r].pc = "llm"
                       THEN AsyncWithExit(ai_semaphore, "cancelled")
                       ELSE ai_semaphore
    /\ Respond(r, 0, FALSE, 0, "CancelledError")
    /\ UNCHANGED <<sched, probe>>
    /\ UNCHANGED <<provider, rows, audit, wrk, db_write_lock, txn, alerts, csv>>

\* safe_commit, in the thread pool: "with db_write_lock".
IngestLock(r) ==
    /\ req[r].pc = "write"
    /\ CanAcquire(db_write_lock)
    /\ db_write_lock' = <<"req", r>>
    /\ req' = [req EXCEPT ![r].pc = "flush"]
    /\ UNCHANGED <<sched, probe>>
    /\ UNCHANGED <<provider, rows, audit, wrk, ai_semaphore, txn, alerts, csv>>

\* session.commit() flushes the INSERT: the store refuses it when another
\* write transaction is open (OperationalError, database is locked: not
\* caught, a 500) or when the hash is already stored (IntegrityError).
IngestFlush(r) ==
    /\ req[r].pc = "flush"
    /\ IF txn # NoHolder
       THEN /\ Respond(r, 500, FALSE, 0, "OperationalError")
            /\ db_write_lock' = NoHolder
            /\ txn' = txn
       ELSE IF UniqueConflict(rows, generate_hash(req[r].clean))
       THEN /\ req' = [req EXCEPT ![r].pc = "conflict"]
            /\ db_write_lock' = NoHolder
            /\ txn' = txn
       ELSE /\ req' = [req EXCEPT ![r].pc = "commit"]
            /\ db_write_lock' = db_write_lock
            /\ txn' = <<"req", r>>
    /\ UNCHANGED <<sched, probe>>
    /\ UNCHANGED <<provider, rows, audit, wrk, ai_semaphore, alerts, csv>>

\* session.commit() completes and the lock is released.
IngestCommit(r) ==
    /\ req[r].pc = "commit"
    /\ rows' = Append(rows, NewRow(Len(rows) + 1, req[r].raw,
                                   generate_hash(req[r].clean), req[r].result))
    /\ audit' = Append(audit, AuditOf(req[r].outcome))
    /\ req' = [req EXCEPT ![r].pc = "post", ![r].id = Len(rows) + 1]
    /\ txn' = NoHolder
    /\ db_write_lock' = NoHolder
    /\ UNCHANGED <<sched, probe>>
    /\ UNCHANGED <<provider, wrk, ai_semaphore, alerts, csv>>

\* session.refresh(db_obj), the alert task for an urgent row, the response.
IngestRespond(r) ==
    /\ req[r].pc = "post"
    /\ alerts' = IF rows[req[r].id].is_urgent THEN Append(alerts, req[r].id)
                 ELSE alerts
    /\ Respond(r, 200, FALSE, req[r].id, "")
    /\ UNCHANGED <<sched, probe>>
    /\ UNCHANGED <<provider, rows, audit, wrk, ai_semaphore, db_write_lock, txn, csv>>

\* except IntegrityError: re-read by hash, answer as a duplicate.
IngestConflict(r) ==
    /\ req[r].pc = "conflict"
    /\ Respond(r, 200, TRUE, FindByHash(rows, generate_hash(req[r].clean)), "")
    /\ UNCHANGED <<sched, probe>>
    /\ UNCHANGED <<provider, rows, audit, wrk, ai_semaphore, db_write_lock, txn,
                   alerts, csv>>

(***************************************************************************)
(* app/workers.py: reconcile_data_worker                                   *)
(***************************************************************************)
\* The ids a worker or a resolve request may be given: 0 stands for a
\* string that is no UUID, an id beyond the table for a missing row.
FeedbackIds == 0..(NumRequests + 1)

\* Mutant: the worker never lowers a row's urgency.
reconcile_update_KeepUrgency(feedback, ai_result, was_urgent) ==
    LET missed_urgency == ai_result.is_urgent /\ ~was_urgent
    IN [feedback EXCEPT
          !.sentiment = ai_result.sentiment,
          !.topics = ai_result.topics,
          !.is_urgent = @ \/ ai_result.is_urgent,
          !.source = AI,
          !.ai_provider = ai_result.ai_provider,
          !.department = map_topics_to_department(ai_result.topics),
          !.needs_review = IF missed_urgency THEN TRUE ELSE @]

\* Mutant: a reply whose topics had to be repaired leaves the row marked
\* as fallback.
reconcile_update_RepairedStaysFallback(feedback, ai_result, was_urgent) ==
    LET missed_urgency == ai_result.is_urgent /\ ~was_urgent
    IN [feedback EXCEPT
          !.sentiment = ai_result.sentiment,
          !.topics = ai_result.topics,
          !.is_urgent = ai_result.is_urgent,
          !.source = IF ai_result.topics = <<"General">> THEN FALLBACK ELSE AI,
          !.ai_provider = ai_result.ai_provider,
          !.department = map_topics_to_department(ai_result.topics),
          !.needs_review = IF missed_urgency THEN TRUE ELSE @]

\* Mutant: the worker leaves the department as it was.
reconcile_update_NoDepartment(feedback, ai_result, was_urgent) ==
    LET missed_urgency == ai_result.is_urgent /\ ~was_urgent
    IN [feedback EXCEPT
          !.sentiment = ai_result.sentiment,
          !.topics = ai_result.topics,
          !.is_urgent = ai_result.is_urgent,
          !.source = AI,
          !.ai_provider = ai_result.ai_provider,
          !.needs_review = IF missed_urgency THEN TRUE ELSE @]

\* Mutant: the worker never flags a row for review.
reconcile_update_NoReviewFlag(feedback, ai_result, was_urgent) ==
    [feedback EXCEPT
       !.sentiment = ai_result.sentiment,
       !.topics = ai_result.topics,
       !.is_urgent = ai_result.is_urgent,
       !.source = AI,
       !.ai_provider = ai_result.ai_provider,
       !.department = map_topics_to_department(ai_result.topics)]

\* "3. WRITE": the fields the worker sets on the row it re-read.
reconcile_update(feedback, ai_result, was_urgent) ==
    LET missed_urgency == ai_result.is_urgent /\ ~was_urgent
    IN [feedback EXCEPT
          !.sentiment = ai_result.sentiment,
          !.topics = ai_result.topics,
          !.is_urgent = ai_result.is_urgent,
          !.source = AI,
          !.ai_provider = ai_result.ai_provider,
          !.department = map_topics_to_department(ai_result.topics),
          !.needs_review = IF missed_urgency THEN TRUE ELSE @]

\* Mutant: the snapshot is taken of any row that exists, whatever its
\* source.
SnapshotTaken_AnySource(table, fid) == fid \in 1..Len(table)

\* "if feedback and feedback.source == AnalysisSource.FALLBACK": the
\* worker goes on only with a snapshot.
SnapshotTaken(table, fid) ==
    fid \in 1..Len(table) /\ table[fid].source = FALLBACK

\* uuid.UUID(feedback_id) and "1. READ (Snapshot)" of worker w given fid.
TakeSnapshot(w, fid) ==
    IF SnapshotTaken(rows, fid)
    THEN wrk' = [wrk EXCEPT ![w] = [pc |-> "llm", id |-> fid,
                                    raw_content |-> rows[fid].raw_content,
                                    was_urgent |-> rows[fid].is_urgent,
                                    ai_result |-> NoResult,
                                    snap_status |-> rows[fid].status]]
    ELSE wrk' = [wrk EXCEPT ![w] = ReturnedWorker]

\* "2. PROCESS (Slow AI)": call_llm without a deadline; a call that hangs
\* ends in the client's own timeout, an exception like any other.
AwaitLLMOf(w, outcomes) ==
    /\ wrk[w].pc = "llm"
    /\ \E outcome \in outcomes :
         IF outcome.kind = "ok"
         THEN wrk' = [wrk EXCEPT ![w].pc = "write", ![w].ai_result = outcome.result]
         ELSE wrk' = [wrk EXCEPT ![w] = ReturnedWorker]

AwaitLLM(w) ==
    AwaitLLMOf(w, call_llm(sanitize_text(wrk[w].raw_content), provider))

\* The write phase raises: a TypeError of map_topics_to_department, or an
\* OperationalError of the commit when the store is locked.
WriteRaises(w) ==
    \/ map_topics_to_department(wrk[w].ai_result.topics) = TypeError
    \/ txn # NoHolder

\* "3. WRITE (Thread-safe)": re-read, update, commit under db_write_lock.
\* The block runs on the event loop without suspending; it waits for the
\* lock and then commits the update of the row it read.  An exception ends
\* the worker without a write.
WritePhase(w) ==
    /\ wrk[w].pc = "write"
    /\ CanAcquire(db_write_lock)
    /\ IF WriteRaises(w)
       THEN /\ wrk' = [wrk EXCEPT ![w] = ReturnedWorker]
            /\ UNCHANGED <<rows, audit>>
       ELSE /\ rows' = [rows EXCEPT ![wrk[w].id] =
                            reconcile_update(rows[wrk[w].id], wrk[w].ai_result,
                                             wrk[w].was_urgent)]
            /\ audit' = [audit EXCEPT ![wrk[w].id] =
                             [has_llm |-> TRUE,
                              sentiment |-> wrk[w].ai_result.sentiment,
                              topics |-> wrk[w].ai_result.topics,
                              is_urgent |-> wrk[w].ai_result.is_urgent]]
            /\ wrk' = [wrk EXCEPT ![w] = ReturnedWorker]

\* The worker as a background task (admin.force_reconciliation).
ReconcileSnapshot(w) ==
    /\ wrk[w].pc = "idle"
    /\ \E fid \in FeedbackIds : TakeSnapshot(w, fid)
    /\ UNCHANGED <<sched, probe>>
    /\ UNCHANGED <<provider, rows, audit, req, ai_semaphore, db_write_lock, txn,
                   alerts, csv>>

ReconcileLLM(w) ==
    /\ AwaitLLM(w)
    /\ UNCHANGED <<sched, probe>>
    /\ UNCHANGED <<provider, rows, audit, req, ai_semaphore, db_write_lock, txn,
                   alerts, csv>>

ReconcileWrite(w) ==
    /\ WritePhase(w)
    /\ UNCHANGED <<sched, probe>>
    /\ UNCHANGED <<provider, req, ai_semaphore, db_write_lock, txn, alerts, csv>>

(***************************************************************************)
(* app/routers/feedback.py: resolve_ticket                                 *)
(***************************************************************************)
\* Mutant: resolving a ticket also clears its urgency.
resolve_update_ClearsUrgency(item, note) ==
    [item EXCEPT !.status = RESOLVED,
                 !.needs_review = FALSE,
                 !.resolution_note = note,
                 !.is_urgent = FALSE]

resolve_update(item, note) ==
    [item EXCEPT !.status = RESOLVED,
                 !.needs_review = FALSE,
                 !.resolution_note = note]

\* The handler runs on the event loop without suspending: session.get, the
\* three assignments, commit under db_write_lock.  A missing row is a 404.
ResolveTicket ==
    /\ CanAcquire(db_write_lock)
    /\ txn = NoHolder
    /\ \E fid \in 1..Len(rows), note \in Notes :
         /\ rows[fid] # resolve_update(rows[fid], note)
         /\ rows' = [rows EXCEPT ![fid] = resolve_update(rows[fid], note)]
    /\ UNCHANGED <<sched, probe>>
    /\ UNCHANGED <<provider, audit, req, wrk, ai_semaphore, db_write_lock, txn,
                   alerts, csv>>

(***************************************************************************)
(* app/workers.py: process_csv_worker                                      *)
(*                                                                         *)
(* The worker keeps one Session for the whole file.  Objects it has added  *)
(* are pending until a flush; the Session flushes them (INSERT) before     *)
(* each query it runs and at commit.  The first INSERT opens the store's   *)
(* write transaction, which stays open until commit or rollback.           *)
(***************************************************************************)
CsvHolder == <<"csv">>

\* Some pending object's hash is already committed: the flush raises
\* IntegrityError.
PendingConflict(table, pending) ==
    \E i \in 1..Len(pending) : UniqueConflict(table, pending[i].content_hash)

InPending(pending, h) == \E i \in 1..Len(pending) : pending[i].content_hash = h

\* The exception leaves the worker; the Session's rollback drops what was
\* pending and ends its transaction.
CsvDies ==
    /\ csv' = [NoCsv EXCEPT !.pc = "done"]
    /\ txn' = IF txn = CsvHolder THEN NoHolder ELSE txn

\* Loop head: the next row's text, sanitize, hash and "Dedup check".
CsvDedupCheck ==
    /\ csv.pc = "row"
    /\ IF csv.todo = <<>>
       THEN /\ csv' = [csv EXCEPT !.pc = "final"]
            /\ txn' = txn
       ELSE IF Head(csv.todo) = <<>>
       THEN /\ csv' = [csv EXCEPT !.todo = Tail(@)]
            /\ txn' = txn
       ELSE LET text == Head(csv.todo)
                text_hash == generate_hash(sanitize_text(text))
            IN /\ csv.pending # <<>> => txn \in {NoHolder, CsvHolder}
               /\ IF PendingConflict(rows, csv.pending)
                  THEN CsvDies
                  ELSE /\ txn' = IF csv.pending # <<>> THEN CsvHolder ELSE txn
                       /\ IF FindByHash(rows, text_hash) # 0
                             \/ InPending(csv.pending, text_hash)
                          THEN csv' = [csv EXCEPT !.todo = Tail(@)]
                          ELSE csv' = [csv EXCEPT !.pc = "analyze", !.text = text]
    /\ UNCHANGED <<sched, probe>>
    /\ UNCHANGED <<provider, rows, audit, req, wrk, ai_semaphore, db_write_lock,
                   alerts>>

\* analyze_feedback_hybrid(text): "async with ai_semaphore".
CsvAcquire ==
    /\ csv.pc = "analyze"
    /\ ai_semaphore > 0
    /\ ai_semaphore' = ai_semaphore - 1
    /\ csv' = [csv EXCEPT !.pc = "llm"]
    /\ UNCHANGED <<sched, probe>>
    /\ UNCHANGED <<provider, rows, audit, req, wrk, db_write_lock, txn, alerts>>

\* analyze_feedback_hybrid(text) returns (it is given the raw text, not the
\* sanitized one); the new object is added to the Session.
CsvRace ==
    /\ csv.pc = "llm"
    /\ \E outcome \in call_llm(csv.text, provider) :
         LET result == analyze_feedback_hybrid(csv.text, outcome)
             db_obj == [raw_content |-> csv.text,
                        content_hash |-> generate_hash(sanitize_text(csv.text)),
                        result |-> result,
                        outcome |-> outcome]
         IN /\ ai_semaphore' = AsyncWithExit(ai_semaphore, outcome.kind)
            /\ IF result.department = TypeError
               THEN CsvDies
               ELSE /\ csv' = [csv EXCEPT
                                 !.pc = IF (csv.count + 1) % BATCH_SIZE = 0
                                        THEN "batch" ELSE "row",
                                 !.todo = Tail(@),
                                 !.text = <<>>,
                                 !.pending = Append(@, db_obj),
                                 !.count = @ + 1]
                    /\ txn' = txn
    /\ UNCHANGED <<sched, probe>>
    /\ UNCHANGED <<provider, rows, audit, req, wrk, db_write_lock, alerts>>

RECURSIVE InsertAll(_, _)
InsertAll(table, pending) ==
    IF pending = <<>> THEN table
    ELSE InsertAll(Append(table, NewRow(Len(table) + 1, Head(pending).raw_content,
                                        Head(pending).content_hash,
                                        Head(pending).result)),
                   Tail(pending))

RECURSIVE AuditAll(_, _)
AuditAll(history, pending) ==
    IF pending = <<>> THEN history
    ELSE AuditAll(Append(history, AuditOf(Head(pending).outcome)), Tail(pending))

\* "with db_write_lock: session.commit()", every BATCH_SIZE objects and
\* after the last row.
CsvCommit ==
    /\ csv.pc \in {"batch", "final"}
    /\ CanAcquire(db_write_lock)
    /\ txn \in {NoHolder, CsvHolder}
    /\ IF PendingConflict(rows, csv.pending)
       THEN /\ CsvDies
            /\ UNCHANGED <<rows, audit>>
       ELSE /\ rows' = InsertAll(rows, csv.pending)
            /\ audit' = AuditAll(audit, csv.pending)
            /\ txn' = NoHolder
            /\ csv' = [csv EXCEPT !.pc = IF csv.pc = "final" THEN "done" ELSE "row",
                                  !.pending = <<>>]
    /\ UNCHANGED <<sched, probe>>
    /\ UNCHANGED <<provider, req, wrk, ai_semaphore, db_write_lock, alerts>>

(***************************************************************************)
(* app/workers.py: run_periodic_reconciliation                             *)
(*                                                                         *)
(* The scheduler awaits reconcile_data_worker inline: wrk[SchedWorker] is  *)
(* the frame of the call it is awaiting.  sched.last (how the last call    *)
(* ended) and sched.cancel (where a cancellation was delivered) are        *)
(* history.                                                                *)
(***************************************************************************)
SchedWorker == NumWorkers
BackgroundWorkers == Workers \ {SchedWorker}

\* .limit(10), scaled down so that a store of the model can hold more
\* fallback rows than one pass takes.
SCHED_LIMIT == 2

Min(a, b) == IF a < b THEN a ELSE b

\* select(Feedback).where(Feedback.source == FALLBACK).limit(10): the ids
\* of at most SCHED_LIMIT fallback rows, in an order the statement leaves
\* open.
QueryResults(table) ==
    LET fallback == {i \in 1..Len(table) : table[i].source = FALLBACK}
        n == Min(Cardinality(fallback), SCHED_LIMIT)
    IN {items \in [1..n -> fallback] :
           \A i, j \in 1..n : i # j => items[i] # items[j]}

\* "await reconcile_data_worker(str(item.id))" for the first of items, up
\* to the call's first suspension point: without a snapshot the call
\* returns at once.
CallWorker(items) ==
    /\ TakeSnapshot(SchedWorker, Head(items))
    /\ sched' = IF SnapshotTaken(rows, Head(items))
                THEN [sched EXCEPT !.pc = "worker", !.items = items]
                ELSE [sched EXCEPT !.pc = "pause", !.items = items,
                                   !.last = "skipped"]

\* "await asyncio.sleep(5)" is over: the query, and the first call.
SchedulerQuery ==
    /\ sched.pc = "sleep"
    /\ \E items \in QueryResults(rows) :
         /\ items # <<>>
         /\ CallWorker(items)
    /\ UNCHANGED <<provider, rows, audit, req, ai_semaphore, db_write_lock, txn,
                   alerts, csv, probe>>

\* The awaited call's call_llm returns or raises; an exception is caught
\* inside the worker, which returns.
SchedulerAwaitLLM ==
    /\ sched.pc = "worker"
    /\ AwaitLLM(SchedWorker)
    /\ sched' = IF wrk'[SchedWorker].pc = "done"
                THEN [sched EXCEPT !.pc = "pause", !.last = "failed"]
                ELSE sched
    /\ UNCHANGED <<provider, rows, audit, req, ai_semaphore, db_write_lock, txn,
                   alerts, csv, probe>>

\* The awaited call's write phase: it returns, or its exception reaches
\* "except Exception" of the loop ("Scheduler Error", then the backoff).
SchedulerAwaitWrite ==
    /\ sched.pc = "worker"
    /\ WritePhase(SchedWorker)
    /\ sched' = IF WriteRaises(SchedWorker)
                THEN [sched EXCEPT !.pc = "backoff", !.items = <<>>,
                                   !.last = "raised"]
                ELSE [sched EXCEPT !.pc = "pause", !.last = "written"]
    /\ UNCHANGED <<provider, req, ai_semaphore, db_write_lock, txn, alerts, csv,
                   probe>>

\* "await asyncio.sleep(1)" is over: the next item, or the end of the pass.
SchedulerPause ==
    /\ sched.pc = "pause"
    /\ IF Tail(sched.items) = <<>>
       THEN /\ sched' = [sched EXCEPT !.pc = "sleep", !.items = <<>>]
            /\ wrk' = wrk
       ELSE CallWorker(Tail(sched.items))
    /\ UNCHANGED <<provider, rows, audit, req, ai_semaphore, db_write_lock, txn,
                   alerts, csv, probe>>

\* The "await asyncio.sleep(5)" of the exception handler is over.
SchedulerBackoff ==
    /\ sched.pc = "backoff"
    /\ sched' = [sched EXCEPT !.pc = "sleep"]
    /\ UNCHANGED <<provider, rows, audit, req, wrk, ai_semaphore, db_write_lock,
                   txn, alerts, csv, probe>>

\* task.cancel(): CancelledError is raised at the await the task is
\* suspended in.  Inside the try block "except asyncio.CancelledError:
\* break" ends the loop; the sleep of the "except Exception" handler is
\* outside the try block, so there the CancelledError leaves the coroutine.
SchedulerCancel ==
    /\ \/ sched.pc \in {"sleep", "pause", "backoff"}
       \/ sched.pc = "worker" /\ wrk[SchedWorker].pc = "llm"
    /\ sched' = [sched EXCEPT
                    !.pc = IF sched.pc = "backoff" THEN "cancelled" ELSE "exited",
                    !.items = <<>>,
                    !.cancel = sched.pc]
    /\ wrk' = [wrk EXCEPT ![SchedWorker] = ReturnedWorker]
    /\ UNCHANGED <<provider, rows, audit, req, ai_semaphore, db_write_lock, txn,
                   alerts, csv, probe>>

\* A committed row whose LLM call had timed out at ingest.
FallbackObject(text) ==
    [raw_content |-> text,
     content_hash |-> generate_hash(sanitize_text(text)),
     result |-> analyze_feedback_hybrid(sanitize_text(text),
                                        [kind |-> "hang", result |-> NoResult]),
     outcome |-> [kind |-> "hang", result |-> NoResult]]

\* The texts of the rows that earlier requests have left in the store.
StoredTexts ==
    {<<(<<"s", "u", "e">>)>>,
     <<(<<"b", "a", "d", " ", "a", "p", "p">>)>>,
     <<(<<"s", "u", "e">>), (<<"b", "a", "d", " ", "a", "p", "p">>)>>}

\* The scheduler has been started on a store that holds fallback rows; no
\* request and no upload is in progress, one worker may be queued as a
\* background task.
SchedInit ==
    /\ provider \in Providers
    /\ \E texts \in StoredTexts :
         LET objects == [i \in 1..Len(texts) |-> FallbackObject(texts[i])]
         IN /\ rows = InsertAll(<<>>, objects)
            /\ audit = AuditAll(<<>>, objects)
    /\ req = [r \in Requests |-> RefusedRequest]
    /\ wrk = [w \in Workers |-> IF w = SchedWorker THEN ReturnedWorker
                                ELSE IdleWorker]
    /\ ai_semaphore = SEMAPHORE_CAPACITY
    /\ db_write_lock = NoHolder
    /\ txn = NoHolder
    /\ alerts = <<>>
    /\ csv = NoCsv
    /\ sched = [NoSched EXCEPT !.pc = "sleep"]
    /\ probe = NoProbe

SchedNext ==
    \/ SchedulerQuery
    \/ SchedulerAwaitLLM
    \/ SchedulerAwaitWrite
    \/ SchedulerPause
    \/ SchedulerBackoff
    \/ SchedulerCancel
    \/ \E w \in BackgroundWorkers : ReconcileSnapshot(w)
    \/ \E w \in BackgroundWorkers : ReconcileLLM(w)
    \/ \E w \in BackgroundWorkers : ReconcileWrite(w)
    \/ ResolveTicket

SchedSpec == SchedInit /\ [][SchedNext]_vars

(***************************************************************************)
(* The scheduler alone, never cancelled, with an upstream model that       *)
(* answers for some texts and fails for the others.                        *)
(***************************************************************************)
Letters == <<"s", "d", "h", "c">>

\* Texts for which every call of the LLM fails (the exception is caught in
\* "2. PROCESS" of the worker).
UnansweredText(k) == <<Letters[k], "u", "e">>
UnansweredTexts == {UnansweredText(k) : k \in 1..Len(Letters)}

\* A text for which the LLM answers with a reply the write phase accepts.
AnsweredText == <<"b", "a", "d", " ", "a", "p", "p">>

\* n rows whose LLM calls fail, then a younger row whose call succeeds.
LiveStore(n) ==
    [k \in 1..(n + 1) |-> IF k <= n THEN UnansweredText(k) ELSE AnsweredText]

LiveInit ==
    /\ provider \in Providers
    /\ \E n \in 0..SCHED_LIMIT :
         LET objects == [i \in 1..(n + 1) |-> FallbackObject(LiveStore(n)[i])]
         IN /\ rows = InsertAll(<<>>, objects)
            /\ audit = AuditAll(<<>>, objects)
    /\ req = [r \in Requests |-> RefusedRequest]
    /\ wrk = [w \in Workers |-> IF w = SchedWorker THEN ReturnedWorker
                                ELSE IdleWorker]
    /\ ai_semaphore = SEMAPHORE_CAPACITY
    /\ db_write_lock = NoHolder
    /\ txn = NoHolder
    /\ alerts = <<>>
    /\ csv = NoCsv
    /\ sched = [NoSched EXCEPT !.pc = "sleep"]
    /\ probe = NoProbe

\* The answers of call_llm for AnsweredText that the write phase accepts,
\* by provider.
AnsweredOutcomes ==
    [prov \in Providers |->
        {outcome \in call_llm(sanitize_text(AnsweredText), prov) :
            /\ outcome.kind = "ok"
            /\ map_topics_to_department(outcome.result.topics) # TypeError}]

\* What call_llm comes to under this upstream model.
LiveOutcomes(text, prov) ==
    IF text \in UnansweredTexts
    THEN {[kind |-> "error", result |-> NoResult]}
    ELSE AnsweredOutcomes[prov]

\* The awaited call's call_llm returns or raises, as in SchedulerAwaitLLM.
LiveAwaitLLM ==
    /\ sched.pc = "worker"
    /\ AwaitLLMOf(SchedWorker,
                  LiveOutcomes(wrk[SchedWorker].raw_content, provider))
    /\ sched' = IF wrk[SchedWorker].raw_content \in UnansweredTexts
                THEN [sched EXCEPT !.pc = "pause", !.last = "failed"]
                ELSE sched
    /\ UNCHANGED <<provider, rows, audit, req, ai_semaphore, db_write_lock, txn,
                   alerts, csv, probe>>

\* No write of these behaviours raises, so "except Exception" of the loop
\* and its backoff are not reached.
LiveNext ==
    \/ SchedulerQuery
    \/ LiveAwaitLLM
    \/ SchedulerAwaitWrite
    \/ SchedulerPause

\* The scheduler keeps running: it takes a step whenever it has one.
LiveSpec == LiveInit /\ [][LiveNext]_vars /\ WF_vars(LiveNext)

(***************************************************************************)
(* The pure functions of app/logic.py, called on their own                 *)
(***************************************************************************)
\* The longest topic list that is tried.
MaxTopics == 3

\* Tags: the five of TOPIC_TO_DEPT_MAP and one it does not know.
Tags == {"Billing", "Technical", "UX", "Security", "General", "Roadmap"}

TopicLists == UNION {[1..n -> Tags] : n \in 0..MaxTopics}

\* JSON objects an upstream model may send.
JsonObjects ==
    [sentiment : {JAbsent, JStr("POSITIVE"), JStr("Negative"), JStr("positive"),
                  JStr("super_happy"), JBool(TRUE)},
     topics : {JAbsent, JStr("NotAList"), JList(<<>>), JList(<<"UX">>),
               JList(<<"Roadmap", "Billing">>), JList(<<UnhashableTopic, "UX">>)},
     is_urgent : {JAbsent, JBool(TRUE), JBool(FALSE), JStr("false")}]

ApplyValidate ==
    /\ probe.op = "none"
    /\ \E d \in JsonObjects :
         probe' = [op |-> "validate", input |-> d,
                   output |-> validate_llm_response(d)]
    /\ UNCHANGED <<provider, rows, audit, req, wrk, ai_semaphore, db_write_lock,
                   txn, alerts, csv, sched>>

ApplyMap ==
    /\ probe.op = "none"
    /\ \E topics \in TopicLists :
         probe' = [op |-> "map", input |-> topics,
                   output |-> map_topics_to_department(topics)]
    /\ UNCHANGED <<provider, rows, audit, req, wrk, ai_semaphore, db_write_lock,
                   txn, alerts, csv, sched>>

\* The try block of analyze_feedback_hybrid when call_llm returns its
\* parsed and validated reply within the deadline.
ApplyRace ==
    /\ probe.op = "none"
    /\ \E d \in JsonObjects, text \in {sanitize_text(raw) : raw \in Inputs} :
         probe' = [op |-> "race", input |-> d,
                   output |-> RaceResult(text, [kind |-> "ok",
                                                result |-> ParsedReply(d, provider)])]
    /\ UNCHANGED <<provider, rows, audit, req, wrk, ai_semaphore, db_write_lock,
                   txn, alerts, csv, sched>>

\* The strings that are tried: every string of "<", ">" and a letter that
\* is at most one character longer than the truncation limit.
MaxText == TruncLen + 1

Texts == UNION {[1..n -> {"<", ">", "a"}] : n \in 0..MaxText}

\* sanitize_text on a submission, and again on what it returned (the
\* stored text of a record that is submitted again).
ApplySanitize ==
    /\ probe.op = "none"
    /\ \E text \in Texts :
         probe' = [op |-> "sanitize", input |-> text,
                   output |-> [once |-> sanitize_text(text),
                               twice |-> sanitize_text(sanitize_text(text))]]
    /\ UNCHANGED <<provider, rows, audit, req, wrk, ai_semaphore, db_write_lock,
                   txn, alerts, csv, sched>>

PureInit ==
    /\ provider \in {GROQ, OPENAI}
    /\ rows = <<>>
    /\ audit = <<>>
    /\ req = [r \in Requests |-> NewRequest]
    /\ wrk = [w \in Workers |-> IdleWorker]
    /\ ai_semaphore = SEMAPHORE_CAPACITY
    /\ db_write_lock = NoHolder
    /\ txn = NoHolder
    /\ alerts = <<>>
    /\ csv = NoCsv
    /\ sched = NoSched
    /\ probe = NoProbe

PureNext == ApplyValidate \/ ApplyMap \/ ApplyRace \/ ApplySanitize

PureSpec == PureInit /\ [][PureNext]_vars

(***************************************************************************)
(* The system                                                              *)
(***************************************************************************)
Next ==
    \/ \E r \in Requests : IngestStart(r)
    \/ \E r \in Requests : HybridAcquire(r)
    \/ \E r \in Requests : HybridRace(r)
    \/ \E r \in Requests : IngestLock(r)
    \/ \E r \in Requests : IngestFlush(r)
    \/ \E r \in Requests : IngestCommit(r)
    \/ \E r \in Requests : IngestRespond(r)
    \/ \E r \in Requests : IngestConflict(r)
    \/ \E w \in Workers : ReconcileSnapshot(w)
    \/ \E w \in Workers : ReconcileLLM(w)
    \/ \E w \in Workers : ReconcileWrite(w)
    \/ ResolveTicket
    \/ CsvDedupCheck
    \/ CsvAcquire
    \/ CsvRace
    \/ CsvCommit

Spec == Init /\ [][Next]_vars

(***************************************************************************)
(* The users of the gate on the LLM, with cancellation of a request:       *)
(* requests and an upload up to the end of analyze_feedback_hybrid.        *)
(***************************************************************************)
GateNext ==
    \/ \E r \in Requests : IngestStart(r)
    \/ \E r \in Requests : HybridAcquire(r)
    \/ \E r \in Requests : HybridRace(r)
    \/ \E r \in Requests : HybridCancelled(r)
    \/ CsvDedupCheck
    \/ CsvAcquire
    \/ CsvRace

GateSpec == Init /\ [][GateNext]_vars

(***************************************************************************)
(* Properties                                                              *)
(***************************************************************************)
Done(r) == req[r].pc = "done"
Valid(raw) == Len(raw) >= MIN_LENGTH
HashOf(raw) == generate_hash(sanitize_text(raw))
RowsWithHash(h) == {i \in 1..Len(rows) : rows[i].content_hash = h}
AllDone == \A r \in Requests : Done(r)
FINANCE == "Customer Success - Finance"

\* The heuristic's classification of a text, as a row's fields.
HeuristicFallback(text) ==
    [sentiment |-> analyze_heuristic(text).sentiment,
     topics |-> analyze_heuristic(text).topics,
     is_urgent |-> analyze_heuristic(text).is_urgent,
     confidence_score |-> 50,
     ai_provider |-> VADER,
     source |-> FALLBACK,
     department |-> map_topics_to_department(analyze_heuristic(text).topics)]

\* The classification columns of a row.
Classification(row) ==
    [sentiment |-> row.sentiment,
     topics |-> row.topics,
     is_urgent |-> row.is_urgent,
     confidence_score |-> row.confidence_score,
     ai_provider |-> row.ai_provider,
     source |-> row.source,
     department |-> row.department]

C2_IdenticalBurst ==
    (/\ AllDone
     /\ \A r \in Requests : req[r].raw = req[1].raw
     /\ Valid(req[1].raw))
    => /\ \A r \in Requests : req[r].resp.status = 200
       /\ Cardinality({r \in Requests : req[r].resp.duplicate}) >= NumRequests - 1
       /\ \A r \in Requests : req[r].resp.id = req[1].resp.id

\* C3: when the requests submit valid texts with pairwise distinct
\* sanitized forms, every request is answered 200, none with a store-lock
\* error, and each text has its row.
C3_UniqueBurst ==
    (/\ AllDone
     /\ \A r \in Requests : Valid(req[r].raw)
     /\ \A r1, r2 \in Requests : r1 # r2 => HashOf(req[r1].raw) # HashOf(req[r2].raw))
    => /\ \A r \in Requests :
            /\ req[r].resp.status = 200
            /\ req[r].resp.error # "OperationalError"
            /\ ~req[r].resp.duplicate
            /\ Cardinality(RowsWithHash(HashOf(req[r].raw))) = 1
       /\ Cardinality({req[r].resp.id : r \in Requests}) = NumRequests

\* C4: when the LLM call has not completed at the deadline, the
\* orchestrator returns exactly the heuristic's classification of the text
\* it was given, with source fallback, and the row the ingest then commits
\* carries those values.
C4_TimeoutFallback ==
    [][/\ \A r \in Requests :
            /\ (req[r].pc = "llm" /\ req'[r].pc = "write"
                /\ req'[r].outcome.kind = "hang")
               => req'[r].result = HeuristicFallback(req[r].clean)
            /\ (req[r].pc = "commit" /\ req'[r].pc = "post"
                /\ req[r].outcome.kind = "hang")
               => Classification(rows'[req'[r].id]) = HeuristicFallback(req[r].clean)
       /\ (csv.pc = "llm" /\ csv'.pc \in {"row", "batch"}
           /\ csv'.pending[Len(csv'.pending)].outcome.kind = "hang")
          => csv'.pending[Len(csv'.pending)].result = HeuristicFallback(csv.text)
      ]_vars

\* A request whose LLM call timed out has committed an urgent row that
\* carries the heuristic's provider tag.
C4_Witness ==
    \E r \in Requests :
        /\ req[r].pc = "post"
        /\ req[r].outcome.kind = "hang"
        /\ rows[req[r].id].is_urgent
        /\ rows[req[r].id].ai_provider = VADER
        /\ rows[req[r].id].source = FALLBACK

\* C5: whatever the LLM call comes to, a valid request fails only when the
\* store is unavailable; and when the LLM call failed or timed out, the
\* classification to persist is a fallback one.
C5_NoUpstreamFailure ==
    \A r \in Requests :
        /\ (Done(r) /\ Valid(req[r].raw))
           => req[r].resp.error \in {"", "OperationalError"}
        /\ (req[r].pc \in {"write", "flush", "commit"}
            /\ req[r].outcome.kind \in {"error", "hang"})
           => req[r].result.source = FALLBACK

\* C6: a row has source ai exactly when the sentiment, topics and is_urgent
\* of its last classification write are the validated LLM output that the
\* write was given (so a row with source ai has been through the LLM path).
C6_SourceSoundness ==
    /\ Len(audit) = Len(rows)
    /\ \A i \in 1..Len(rows) :
         rows[i].source = AI
         <=> /\ audit[i].has_llm
             /\ rows[i].sentiment = audit[i].sentiment
             /\ rows[i].topics = audit[i].topics
             /\ rows[i].is_urgent = audit[i].is_urgent

\* A row that was inserted as fallback (its confidence is the heuristic's)
\* has been upgraded by a worker, next to a row that is still fallback.
C6_Witness ==
    \E i, j \in 1..Len(rows) :
        /\ rows[i].source = AI /\ rows[i].confidence_score = 50
        /\ rows[i].sentiment # analyze_heuristic(sanitize_text(rows[i].raw_content)).sentiment
        /\ rows[j].source = FALLBACK /\ ~audit[j].has_llm

\* C7: no step deletes a row or takes a row from source ai to another
\* source.
C7_ReconciliationMonotonic ==
    [][/\ Len(rows') >= Len(rows)
       /\ \A i \in 1..Len(rows) : rows[i].source = AI => rows'[i].source = AI
      ]_vars

\* An upgraded row has been resolved and handed to a later duplicate
\* submission while a second worker is about to write to it.
C7_Witness ==
    \E r \in Requests, w \in Workers :
        /\ Done(r) /\ req[r].resp.duplicate
        /\ rows[req[r].resp.id].source = AI
        /\ rows[req[r].resp.id].confidence_score = 50
        /\ rows[req[r].resp.id].status = RESOLVED
        /\ wrk[w].pc = "write" /\ wrk[w].id = req[r].resp.id

\* C8: every row's department is map_topics_to_department of its topics.
C8_DepartmentConsistent ==
    \A i \in 1..Len(rows) :
        rows[i].department = map_topics_to_department(rows[i].topics)

\* The file's rows are committed, one of them has been upgraded by a
\* worker to topics that map to another department, and it is resolved.
C8_Witness ==
    /\ csv.pc = "done"
    /\ \E i \in 1..Len(rows) :
        /\ rows[i].source = AI /\ rows[i].confidence_score = 50
        /\ rows[i].department = FINANCE
        /\ rows[i].department #
             map_topics_to_department(analyze_heuristic(rows[i].raw_content).topics)
        /\ rows[i].status = RESOLVED

\* C9: a resolved row is never flagged for review.
C9_ResolvedNotInReview ==
    \A i \in 1..Len(rows) : rows[i].status = RESOLVED => ~rows[i].needs_review

\* C10: a worker whose row was open at its snapshot and is resolved at its
\* write leaves the row as it is.
C10_AbortOnResolved ==
    [][\A w \in Workers :
          (/\ wrk[w].pc = "write" /\ wrk'[w].pc = "done"
           /\ wrk[w].snap_status = OPEN
           /\ rows[wrk[w].id].status = RESOLVED)
          => rows'[wrk[w].id] = rows[wrk[w].id]
      ]_vars

\* The step in which worker w commits its update: it leaves the write phase,
\* the department of the LLM's topics could be computed and the store
\* accepted the write.
Upgrades(w) ==
    /\ wrk[w].pc = "write" /\ wrk'[w].pc = "done"
    /\ map_topics_to_department(wrk[w].ai_result.topics) # TypeError
    /\ txn = NoHolder

\* C11: a worker that writes an upgrade flags the row for review when the
\* LLM result is urgent and the snapshot was not (missed urgency), and also
\* when the LLM result is urgent and the sentiment stored on the row at
\* write time differs from the LLM's sentiment.
C11_DriftRule ==
    [][\A w \in Workers :
          (/\ Upgrades(w)
           /\ wrk[w].ai_result.is_urgent
           /\ \/ ~wrk[w].was_urgent
              \/ rows[wrk[w].id].sentiment # wrk[w].ai_result.sentiment)
          => rows'[wrk[w].id].needs_review
      ]_vars

\* C12: a worker whose snapshot was a fallback row that was not urgent and
\* whose LLM result is urgent leaves the row with source ai, urgent,
\* flagged for review, and with the LLM's sentiment, topics and provider
\* and the department of the LLM's topics.
C12_DriftScenario ==
    [][\A w \in Workers :
          (/\ Upgrades(w)
           /\ ~wrk[w].was_urgent
           /\ wrk[w].ai_result.is_urgent)
          => /\ rows'[wrk[w].id].source = AI
             /\ rows'[wrk[w].id].is_urgent
             /\ rows'[wrk[w].id].needs_review
             /\ rows'[wrk[w].id].sentiment = wrk[w].ai_result.sentiment
             /\ rows'[wrk[w].id].topics = wrk[w].ai_result.topics
             /\ rows'[wrk[w].id].ai_provider = wrk[w].ai_result.ai_provider
             /\ rows'[wrk[w].id].department =
                  map_topics_to_department(wrk[w].ai_result.topics)
      ]_vars

\* An open row that the heuristic had classified as not urgent has been
\* upgraded to the LLM's urgent classification and is flagged for review.
C12_Witness ==
    \E i \in 1..Len(rows) :
        /\ rows[i].source = AI /\ rows[i].confidence_score = 50
        /\ ~analyze_heuristic(sanitize_text(rows[i].raw_content)).is_urgent
        /\ rows[i].is_urgent /\ rows[i].needs_review
        /\ rows[i].status = OPEN
        /\ rows[i].department = FINANCE

\* C13: a worker that is given a row whose source is already ai, or an id
\* that names no row, makes no LLM call and no write: a worker starts its
\* LLM call only on a row that is fallback, a background worker that
\* returns from its snapshot leaves the store as it is, and a call of the
\* scheduler on a row that has become ai returns at once and leaves the
\* store as it is.
C13_WorkerIdempotent ==
    [][/\ \A w \in Workers :
            /\ (wrk[w].pc \in {"idle", "done"} /\ wrk'[w].pc = "llm")
               => rows[wrk'[w].id].source = FALLBACK
            /\ (wrk[w].pc = "idle" /\ wrk'[w].pc = "done") => rows' = rows
       /\ (/\ sched.pc \in {"sleep", "pause"}
           /\ sched'.pc \in {"worker", "pause"}
           /\ sched'.items # <<>>
           /\ sched' # sched
           /\ rows[Head(sched'.items)].source = AI)
          => /\ sched'.pc = "pause"
             /\ wrk'[SchedWorker].pc = "done"
             /\ rows' = rows
      ]_vars

\* The scheduler's call on a row that another worker had upgraded since
\* the query returned without a snapshot.
C13_Witness ==
    /\ sched.pc = "pause" /\ sched.last = "skipped"
    /\ rows[Head(sched.items)].source = AI
    /\ rows[Head(sched.items)].confidence_score = 50

\* C14: when a worker's LLM call is over, the store is as it was; the
\* worker goes on to its write phase only with a result of the LLM, and
\* otherwise returns (it does not call again), so a failed call leaves the
\* row fallback.
C14_FailureLeavesRecord ==
    [][\A w \in Workers :
          (wrk[w].pc = "llm" /\ wrk'[w].pc # "llm")
          => /\ rows' = rows
             /\ audit' = audit
             /\ wrk'[w].pc \in {"write", "done"}
             /\ wrk'[w].pc = "write"
                => /\ wrk'[w].ai_result.sentiment \in Sentiments
                   /\ wrk'[w].ai_result.topics # <<>>
      ]_vars

\* The LLM call of the scheduler's worker failed: the call returned and the
\* row is the fallback row it was.
C14_Witness ==
    /\ sched.pc = "pause" /\ sched.last = "failed"
    /\ rows[Head(sched.items)].source = FALLBACK
    /\ rows[Head(sched.items)].ai_provider = VADER
    /\ ~rows[Head(sched.items)].needs_review

\* The LLM calls in flight: ingest and CSV calls inside the race, workers
\* awaiting call_llm.
LLMCallsInFlight ==
    Cardinality({r \in Requests : req[r].pc = "llm"})
    + Cardinality({w \in Workers : wrk[w].pc = "llm"})
    + (IF csv.pc = "llm" THEN 1 ELSE 0)

\* C15: the LLM calls in flight, over ingest, CSV processing and
\* reconciliation workers together, never exceed the capacity of the gate.
C15_GateCapsCalls == LLMCallsInFlight <= SEMAPHORE_CAPACITY

\* C16: an ingest that is waiting for admission to the gate can always go
\* on by itself (at the latest when its deadline elapses, with the
\* heuristic's result): it never depends on another call giving back a
\* token.
C16_GateWaitBounded ==
    \A r \in Requests : req[r].pc = "analyze" => ENABLED HybridAcquire(r)

\* C17: whoever has a write to the store in progress holds the write gate.
C17_WriteGate == txn # NoHolder => db_write_lock = txn

\* C18: the scheduler ends only when it is cancelled; an exception of a
\* pass takes it to the backoff and from there back to the loop; and a
\* cancellation, wherever it is delivered, ends it by a clean exit.
C18_SchedulerLifecycle ==
    [][/\ sched'.pc \in {"exited", "cancelled"} => sched'.cancel # ""
       /\ (/\ sched.pc = "worker" /\ wrk[SchedWorker].pc = "write"
           /\ WriteRaises(SchedWorker) /\ wrk'[SchedWorker].pc = "done")
          => sched'.pc = "backoff"
       /\ (sched.pc = "backoff" /\ sched' # sched /\ sched'.cancel = "")
          => sched'.pc = "sleep"
       /\ sched'.cancel # "" => sched'.pc = "exited"
      ]_vars

\* The sentiment validation is to return for a JSON value: the upper-cased
\* string when that is one of the three sentiments, NEUTRAL otherwise.
RepairedSentiment(v) ==
    IF v \in {JStr("POSITIVE"), JStr("positive")} THEN "POSITIVE"
    ELSE IF v = JStr("Negative") THEN "NEGATIVE"
    ELSE "NEUTRAL"

DepartmentOfTag(tag) ==
    CASE tag = "Billing" -> "Customer Success - Finance"
      [] tag = "Technical" -> "Engineering - Core"
      [] tag = "UX" -> "Product - Design"
      [] tag = "Security" -> "InfoSec - Priority"
      [] tag = "General" -> "Customer Support - Triage"
      [] OTHER -> UNASSIGNED

\* C20: for a list of tags, map_topics_to_department returns the department
\* of the first tag of the list that is one of the five known tags, and
\* Unassigned exactly when the list holds no known tag.
C20_DepartmentMapping ==
    probe.op = "map"
    => LET topics == probe.input
           known == {i \in 1..Len(topics) :
                        topics[i] \in {"Billing", "Technical", "UX", "Security",
                                       "General"}}
       IN /\ known # {}
             => \E i \in known :
                   /\ \A j \in known : i <= j
                   /\ probe.output = DepartmentOfTag(topics[i])
          /\ probe.output = UNASSIGNED <=> known = {}

\* An unknown tag was skipped and the first known tag, not the last, chose
\* the department.
C20_Witness ==
    /\ probe.op = "map"
    /\ probe.input = <<"Roadmap", "UX", "Billing">>
    /\ probe.output = "Product - Design"

\* C21: sanitizing a sanitized text returns it unchanged, so its dedup hash
\* is the hash the original submission was stored under; the sanitized text
\* holds no tag and is not longer than the truncation limit.
C21_SanitizeIdempotent ==
    probe.op = "sanitize"
    => /\ probe.output.twice = probe.output.once
       /\ generate_hash(probe.output.twice) = generate_hash(probe.output.once)
       /\ Len(probe.output.once) <= TruncLen
       /\ \A i, j \in 1..Len(probe.output.once) :
             ~(i < j /\ probe.output.once[i] = "<" /\ probe.output.once[j] = ">")

\* A text longer than the limit with nested and unbalanced brackets was
\* sanitized to a closing bracket followed by an opening one.
C21_Witness ==
    /\ probe.op = "sanitize"
    /\ probe.input = <<"<", "<", "a", ">", ">", "<">>
    /\ probe.output.once = <<">", "<">>
    /\ probe.output.twice = <<">", "<">>

\* C22: a valid request whose sanitized text's hash is already stored when
\* the request reads the store is answered at once with that row and the
\* duplicate marker; it has computed no classification, holds no gate
\* token, and the store, the locks and the alert queue are as they were.
C22_PrecheckShortCircuit ==
    [][\A r \in Requests :
          (/\ req[r].pc = "new" /\ req'[r].pc # "new"
           /\ Valid(req'[r].raw)
           /\ RowsWithHash(HashOf(req'[r].raw)) # {})
          => /\ req'[r].pc = "done"
             /\ req'[r].resp.status = 200
             /\ req'[r].resp.duplicate
             /\ req'[r].resp.id \in RowsWithHash(HashOf(req'[r].raw))
             /\ req'[r].outcome = NoOutcome /\ req'[r].result = NoFinal
             /\ rows' = rows /\ audit' = audit
             /\ alerts' = alerts
             /\ ai_semaphore' = ai_semaphore
             /\ db_write_lock' = db_write_lock /\ txn' = txn
      ]_vars

\* The file's two rows are committed and a request that submitted the
\* first text with markup was answered with the first row as a duplicate;
\* no alert was queued.
C22_Witness ==
    /\ csv.pc = "done" /\ Len(rows) = 2
    /\ \E r \in Requests :
          /\ Done(r) /\ req[r].resp.duplicate /\ req[r].resp.id = 1
          /\ req[r].raw = <<"<", "b", ">", "s", "u", "e">>
    /\ alerts = <<>>

\* The columns in which two versions of a row differ.
ChangedColumns(old, new) == {c \in DOMAIN old : old[c] # new[c]}

\* C23: no step removes a row; a step changes a row only in the columns
\* resolution sets (status, resolution_note, needs_review) or in those
\* reconciliation sets (sentiment, topics, is_urgent, source, ai_provider,
\* department, needs_review), the latter only as the write of a worker that
\* holds that row's id; id, raw_content and content_hash never change.
C23_LifecycleFrame ==
    [][/\ Len(rows') >= Len(rows)
       /\ \A i \in 1..Len(rows) :
            LET changed == ChangedColumns(rows[i], rows'[i])
            IN /\ changed \cap {"id", "raw_content", "content_hash"} = {}
               /\ \/ changed \subseteq {"status", "resolution_note", "needs_review"}
                  \/ /\ changed \subseteq {"sentiment", "topics", "is_urgent",
                                           "source", "ai_provider", "department",
                                           "needs_review"}
                     /\ \E w \in Workers :
                           /\ wrk[w].pc = "write" /\ wrk[w].id = i
                           /\ wrk'[w].pc = "done"
      ]_vars

\* An urgent row has been resolved with a note and then upgraded by a
\* worker, which flagged it for review; its text and hash are those it was
\* created with.
C23_Witness ==
    \E i \in 1..Len(rows) :
        /\ rows[i].status = RESOLVED /\ rows[i].resolution_note = "fixed"
        /\ rows[i].source = AI /\ rows[i].needs_review
        /\ rows[i].id = i
        /\ rows[i].content_hash = HashOf(rows[i].raw_content)

\* The steps of a request in the order the handler takes them.
StepsInOrder(from, to) ==
    \/ from = "new" /\ to \in {"analyze", "done"}
    \/ from = "analyze" /\ to = "llm"
    \/ from = "llm" /\ to \in {"write", "done"}
    \/ from = "write" /\ to = "flush"
    \/ from = "flush" /\ to \in {"commit", "conflict", "done"}
    \/ from = "commit" /\ to = "post"
    \/ from \in {"post", "conflict"} /\ to = "done"

\* C24: a request goes through sanitize and dedup read, classification,
\* commit, alert and response in this order; it flushes and commits only
\* while it holds the write gate; the response for a new record names a row
\* that is committed under the request's hash; and an alert is queued only
\* by a request that has committed, for the row it committed, in the step
\* in which it answers.
C24_IngestOrdering ==
    /\ [](\A r \in Requests :
            /\ req[r].pc \in {"flush", "commit"} => db_write_lock = <<"req", r>>
            /\ (Done(r) /\ req[r].resp.status = 200 /\ ~req[r].resp.duplicate)
               => req[r].resp.id \in RowsWithHash(HashOf(req[r].raw)))
    /\ [](\A k \in 1..Len(alerts) : alerts[k] \in 1..Len(rows))
    /\ [][/\ \A r \in Requests :
               req'[r].pc # req[r].pc => StepsInOrder(req[r].pc, req'[r].pc)
          /\ alerts' # alerts
             => \E r \in Requests :
                   /\ req[r].pc = "post" /\ req'[r].pc = "done"
                   /\ req[r].id \in RowsWithHash(HashOf(req[r].raw))
                   /\ alerts' = Append(alerts, req[r].id)
                   /\ req'[r].resp.id = req[r].id
         ]_vars

\* A request has committed an urgent row, queued the alert for it and
\* answered with it as a new record, while another request is committing.
C24_Witness ==
    \E r1, r2 \in Requests :
        /\ Done(r1) /\ ~req[r1].resp.duplicate /\ req[r1].resp.status = 200
        /\ alerts = <<req[r1].resp.id>>
        /\ req[r2].pc = "commit"

\* C25: the request that creates a record queues an alert for it exactly
\* when the classification it created the record with is urgent; nothing
\* else queues an alert (no request answered as a duplicate or as an error
\* does), and no record has more than one alert.
C25_UrgentAlerting ==
    /\ [](\A j, k \in 1..Len(alerts) : alerts[j] = alerts[k] => j = k)
    /\ [][/\ \A r \in Requests :
               (req[r].pc = "post" /\ req'[r].pc = "done")
               => alerts' = IF req[r].result.is_urgent
                            THEN Append(alerts, req[r].id)
                            ELSE alerts
          /\ alerts' # alerts
             => \E r \in Requests : req[r].pc = "post" /\ req'[r].pc = "done"
         ]_vars

\* C26: the query of a scheduler pass selects at most SCHED_LIMIT records,
\* each of them FALLBACK when it is selected, oldest first (rows are
\* numbered in creation order); the scheduler has a worker call in flight
\* only while it works on the first of the records it has left, so it never
\* runs two calls at once.
C26_SchedulerBatch ==
    /\ [](/\ sched.pc = "worker"
             => /\ wrk[SchedWorker].pc \in {"llm", "write"}
                /\ wrk[SchedWorker].id = Head(sched.items)
          /\ sched.pc # "worker" => wrk[SchedWorker].pc = "done")
    /\ [][(sched.pc = "sleep" /\ sched'.items # <<>>)
          => /\ Len(sched'.items) <= SCHED_LIMIT
             /\ \A k \in 1..Len(sched'.items) :
                  /\ sched'.items[k] \in 1..Len(rows)
                  /\ rows[sched'.items[k]].source = FALLBACK
             /\ \A j, k \in 1..Len(sched'.items) :
                  j < k => sched'.items[j] < sched'.items[k]
         ]_vars

\* The calls inside "async with ai_semaphore": requests and the upload in
\* the race (reconcile workers call the LLM without a token).
TokensHeld ==
    Cardinality({r \in Requests : req[r].pc = "llm"})
    + (IF csv.pc = "llm" THEN 1 ELSE 0)

\* C27: a gate token is held exactly by the calls in progress, whichever
\* way earlier calls ended (result, timeout, exception, cancellation of the
\* request); with no call in progress the gate is at full capacity.
C27_NoTokenLeak ==
    ai_semaphore = SEMAPHORE_CAPACITY - TokensHeld

\* One request was cancelled during its call and another has since been
\* admitted to the gate.
C27_Witness ==
    \E r1, r2 \in Requests :
        /\ Done(r1) /\ req[r1].resp.error = "CancelledError"
        /\ req[r1].raw # <<>>
        /\ req[r2].pc = "llm"
        /\ ai_semaphore = SEMAPHORE_CAPACITY - 1

\* C28: a record is upgraded at most once: a worker that reaches its write
\* phase on a row that another worker has already made ai leaves the row as
\* it is.
C28_UpgradedOnce ==
    [][\A w \in Workers :
          (Upgrades(w) /\ rows[wrk[w].id].source = AI) => rows' = rows
      ]_vars

\* C29: with the scheduler running fairly and never cancelled, every
\* fallback row whose LLM call succeeds is eventually upgraded to ai,
\* however many other fallback rows keep failing.
C29_NoStarvation ==
    \A i \in 1..(SCHED_LIMIT + 1) :
        <>(\/ i > Len(rows)
           \/ rows[i].raw_content \in UnansweredTexts
           \/ rows[i].source = AI)

====
